---- MODULE Spec2Model ----
(***************************************************************************)
(* One run of kiwi_airports.py: the command line is parsed, one GET is     *)
(* sent to the locations API, and the airports of the reply are written as *)
(* CSV to standard output; whatever is raised inside the try block is       *)
(* handled by the `except Exception` clause of the script.                  *)
(*                                                                          *)
(* Text that the csv writer produces is a sequence of one-character         *)
(* strings, so that quoting and joining are computed; the messages of      *)
(* exceptions are TLA+ strings.  A JSON scalar is a tagged value           *)
(* [t |-> "str", v |-> chars] or [t |-> "num", v |-> integer]; a JSON      *)
(* object is a function from its keys.                                      *)
(***************************************************************************)
EXTENDS Integers, Sequences, FiniteSets, TLC

VARIABLES
    pc,             \* position of the script
    argv,           \* the switches given on the command line
    parsed_options, \* argparse.Namespace of the five switches
    requests,       \* the outbound requests issued so far
    response,       \* what the API answered to the request
    json_response,  \* local of __main__: the parsed body
    fieldnames,     \* local of output_airports
    i,              \* enumerate index of the loop of output_airports
    exc,            \* the exception in flight
    stdout,         \* the writes made to sys.stdout, in order
    stderr,         \* the writes made to sys.stderr, in order
    exit_status     \* "running", "success" (status 0) or "failure" (status 1)

vars == <<pc, argv, parsed_options, requests, response, json_response,
          fieldnames, i, exc, stdout, stderr, exit_status>>

\* Longest locations array the API answers with.
MaxRecords == 2

Flags == {"cities", "coords", "iata", "names", "full"}

---------------------------------------------------------------------------
(* Values *)

Str(s) == [t |-> "str", v |-> s]
Num(n) == [t |-> "num", v |-> n]

Unassigned == [unassigned |-> TRUE]
NoException == [type |-> "None", msg |-> ""]

Return(v) == [raised |-> FALSE, value |-> v]
Raise(e) == [raised |-> TRUE, exc |-> e]

\* str(KeyError(k)) is the repr of the key.
KeyError(k) == [type |-> "KeyError", msg |-> "'" \o k \o "'"]
JSONDecodeError == [type |-> "JSONDecodeError",
                    msg |-> "Expecting value: line 1 column 1 (char 0)"]
ConnectionError == [type |-> "ConnectionError", msg |-> "Connection refused"]

\* The classes the clause `except Exception` catches among those raised here.
ExceptionSubclasses ==
    {"Exception", "KeyError", "JSONDecodeError", "ConnectionError"}

---------------------------------------------------------------------------
(* The API's answers *)

Heathrow == [name |-> Str(<<"H">>), city |-> [name |-> Str(<<"L">>)],
             location |-> [lon |-> Num(-1), lat |-> Num(51)],
             code |-> Str(<<"L", "H", "R">>)]
Quoted == [name |-> Str(<<"a", ",", "b">>), city |-> [name |-> Str(<<"\"">>)],
           location |-> [lon |-> Num(0), lat |-> Num(10)],
           code |-> Str(<<>>)]

Without(f, k) == [x \in DOMAIN f \ {k} |-> f[x]]

WellFormed == {Heathrow, Quoted}
Malformed ==
    {Without(Heathrow, k) : k \in {"name", "city", "location", "code"}}
    \cup {[Heathrow EXCEPT !.city = Without(Heathrow.city, "name")]}
    \cup {[Heathrow EXCEPT !.location = Without(Heathrow.location, k)] :
            k \in {"lon", "lat"}}
Airports == WellFormed \cup Malformed

LocationLists == UNION {[1..n -> Airports] : n \in 0..MaxRecords}

InvalidBody == [json |-> FALSE]
JsonBody(v) == [json |-> TRUE, value |-> v]

Replies ==
    {[error |-> TRUE]}
    \cup {[error |-> FALSE, ok |-> FALSE, text |-> b] :
            b \in {InvalidBody, JsonBody([message |-> Str(<<"e">>)])}}
    \cup {[error |-> FALSE, ok |-> TRUE, text |-> b] :
            b \in {InvalidBody, JsonBody([message |-> Str(<<"e">>)])}
                  \cup {JsonBody([locations |-> l]) : l \in LocationLists}}

---------------------------------------------------------------------------
(* parse_options *)

parse_options(args) == [f \in Flags |-> f \in args]

---------------------------------------------------------------------------
(* get_airports *)

main_country == "GB"
main_limit == 100

locations_request(iso_country_code, limit) ==
    [url |-> "https://api.skypicker.com/locations",
     params |-> [type |-> "subentity", term |-> iso_country_code,
                 location_types |-> "airport", limit |-> limit]]

\* Variant: the message without the name of the service.
FetchErrorMessageGeneric == "Could not fetch data from locations API."

FetchErrorMessage == "Could not fetch data from kiwi locations API."

json_loads(text) ==
    IF text.json THEN Return(text.value) ELSE Raise(JSONDecodeError)

get_airports(reply) ==
    IF reply.error THEN Raise(ConnectionError)
    ELSE IF ~reply.ok
         THEN Raise([type |-> "Exception", msg |-> FetchErrorMessage])
         ELSE json_loads(reply.text)

---------------------------------------------------------------------------
(* get_fieldnames *)

\* Variant: the test of full is missing.
get_fieldnames_no_full(opts) ==
    IF TRUE \notin {opts[f] : f \in DOMAIN opts} THEN <<"name">>
    ELSE (IF opts.names THEN <<"name">> ELSE <<>>)
         \o (IF opts.cities THEN <<"city">> ELSE <<>>)
         \o (IF opts.coords THEN <<"lon", "lat">> ELSE <<>>)
         \o (IF opts.iata THEN <<"iata">> ELSE <<>>)

\* Variant: coords adds lat before lon.
get_fieldnames_lat_lon(opts) ==
    IF TRUE \notin {opts[f] : f \in DOMAIN opts} THEN <<"name">>
    ELSE IF opts.full THEN <<"name", "city", "lon", "lat", "iata">>
    ELSE (IF opts.names THEN <<"name">> ELSE <<>>)
         \o (IF opts.cities THEN <<"city">> ELSE <<>>)
         \o (IF opts.coords THEN <<"lat", "lon">> ELSE <<>>)
         \o (IF opts.iata THEN <<"iata">> ELSE <<>>)

\* Variant: the test for no switch at all is missing.
get_fieldnames_no_default(opts) ==
    IF opts.full THEN <<"name", "city", "lon", "lat", "iata">>
    ELSE (IF opts.names THEN <<"name">> ELSE <<>>)
         \o (IF opts.cities THEN <<"city">> ELSE <<>>)
         \o (IF opts.coords THEN <<"lon", "lat">> ELSE <<>>)
         \o (IF opts.iata THEN <<"iata">> ELSE <<>>)

get_fieldnames(opts) ==
    IF TRUE \notin {opts[f] : f \in DOMAIN opts} THEN <<"name">>
    ELSE IF opts.full THEN <<"name", "city", "lon", "lat", "iata">>
    ELSE (IF opts.names THEN <<"name">> ELSE <<>>)
         \o (IF opts.cities THEN <<"city">> ELSE <<>>)
         \o (IF opts.coords THEN <<"lon", "lat">> ELSE <<>>)
         \o (IF opts.iata THEN <<"iata">> ELSE <<>>)

---------------------------------------------------------------------------
(* create_airport_row *)

\* Variant: dict.get with a default of '' in place of subscripting.
create_airport_row_defaults(airport) ==
    LET get(d, k) == IF k \in DOMAIN d THEN d[k] ELSE Str(<<>>)
        sub(d, k) == IF k \in DOMAIN d THEN d[k] ELSE <<>>
    IN  Return([name |-> get(airport, "name"),
                city |-> get(sub(airport, "city"), "name"),
                lon |-> get(sub(airport, "location"), "lon"),
                lat |-> get(sub(airport, "location"), "lat"),
                iata |-> get(airport, "code")])

create_airport_row(airport) ==
    IF "name" \notin DOMAIN airport THEN Raise(KeyError("name"))
    ELSE IF "city" \notin DOMAIN airport THEN Raise(KeyError("city"))
    ELSE IF "name" \notin DOMAIN airport.city THEN Raise(KeyError("name"))
    ELSE IF "location" \notin DOMAIN airport THEN Raise(KeyError("location"))
    ELSE IF "lon" \notin DOMAIN airport.location THEN Raise(KeyError("lon"))
    ELSE IF "lat" \notin DOMAIN airport.location THEN Raise(KeyError("lat"))
    ELSE IF "code" \notin DOMAIN airport THEN Raise(KeyError("code"))
    ELSE Return([name |-> airport.name,
                 city |-> airport.city.name,
                 lon |-> airport.location.lon,
                 lat |-> airport.location.lat,
                 iata |-> airport.code])

---------------------------------------------------------------------------
(* csv.DictWriter(sys.stdout, fieldnames, extrasaction='ignore') *)

Digit(d) == <<"0", "1", "2", "3", "4", "5", "6", "7", "8", "9">>[d + 1]

RECURSIVE NatToStr(_)
NatToStr(n) ==
    IF n < 10 THEN <<Digit(n)>> ELSE NatToStr(n \div 10) \o <<Digit(n % 10)>>

\* str() of a cell of the row.
py_str(x) ==
    IF x.t = "str" THEN x.v
    ELSE IF x.v < 0 THEN <<"-">> \o NatToStr(-x.v) ELSE NatToStr(x.v)

FieldText(f) ==
    CASE f = "name" -> <<"n", "a", "m", "e">>
      [] f = "city" -> <<"c", "i", "t", "y">>
      [] f = "lon" -> <<"l", "o", "n">>
      [] f = "lat" -> <<"l", "a", "t">>
      [] f = "iata" -> <<"i", "a", "t", "a">>

NeedsQuote(s) == \E k \in 1..Len(s) : s[k] \in {",", "\"", "\r", "\n"}

RECURSIVE DoubleQuotes(_)
DoubleQuotes(s) ==
    IF s = <<>> THEN <<>>
    ELSE (IF Head(s) = "\"" THEN <<"\"", "\"">> ELSE <<Head(s)>>)
         \o DoubleQuotes(Tail(s))

\* One field under QUOTE_MINIMAL; `alone` is true of the only field of a row.
csv_field(s, alone) ==
    IF NeedsQuote(s) \/ (alone /\ s = <<>>)
    THEN <<"\"">> \o DoubleQuotes(s) \o <<"\"">>
    ELSE s

RECURSIVE csv_join(_)
csv_join(cells) ==
    IF cells = <<>> THEN <<>>
    ELSE IF Len(cells) = 1 THEN cells[1]
    ELSE cells[1] \o <<",">> \o csv_join(Tail(cells))

\* csv.writer.writerow: the text of one line, terminated by \r\n.
csv_writerow(values) ==
    csv_join([k \in 1..Len(values) |-> csv_field(values[k], Len(values) = 1)])
    \o <<"\r", "\n">>

\* DictWriter._dict_to_list with extrasaction='ignore'.
\* Variant: every value of the row is written, whatever the field list.
dict_to_list_all(names, rowdict) ==
    <<rowdict.name, rowdict.city, rowdict.lon, rowdict.lat, rowdict.iata>>

dict_to_list(names, rowdict) == [k \in 1..Len(names) |-> rowdict[names[k]]]

writeheader(names) ==
    csv_writerow([k \in 1..Len(names) |-> FieldText(names[k])])

writerow(names, rowdict) ==
    LET cells == dict_to_list(names, rowdict)
    IN  csv_writerow([k \in 1..Len(cells) |-> py_str(cells[k])])

CsvWrite(text) == [by |-> "csv", text |-> text]

\* print(str(e)) writes the message and a newline.
print(msg) == [by |-> "print", text |-> msg \o "\n"]

---------------------------------------------------------------------------
(* The script *)

Init ==
    /\ pc = "parse_options"
    /\ argv \in SUBSET Flags
    /\ parsed_options = Unassigned
    /\ requests = <<>>
    /\ response = Unassigned
    /\ json_response = Unassigned
    /\ fieldnames = <<>>
    /\ i = 0
    /\ exc = NoException
    /\ stdout = <<>>
    /\ stderr = <<>>
    /\ exit_status = "running"

\* line 139
ParseOptions ==
    /\ pc = "parse_options"
    /\ parsed_options' = parse_options(argv)
    /\ pc' = "get_airports"
    /\ UNCHANGED <<argv, requests, response, json_response, fieldnames, i,
                   exc, stdout, stderr, exit_status>>

\* line 141
GetAirports ==
    /\ pc = "get_airports"
    /\ \E reply \in Replies :
         LET r == get_airports(reply) IN
         /\ requests' =
                Append(requests, locations_request(main_country, main_limit))
         /\ response' = reply
         /\ IF r.raised
            THEN /\ exc' = r.exc
                 /\ pc' = "except"
                 /\ UNCHANGED json_response
            ELSE /\ json_response' = r.value
                 /\ pc' = "writeheader"
                 /\ UNCHANGED exc
    /\ UNCHANGED <<argv, parsed_options, fieldnames, i, stdout, stderr,
                   exit_status>>

\* lines 72-75
WriteHeader ==
    /\ pc = "writeheader"
    /\ fieldnames' = get_fieldnames(parsed_options)
    /\ stdout' = Append(stdout, CsvWrite(writeheader(fieldnames')))
    /\ pc' = "enumerate"
    /\ UNCHANGED <<argv, parsed_options, requests, response, json_response,
                   i, exc, stderr, exit_status>>

\* Variant: the index of the loop starts at 1.
Enumerate_from_one ==
    /\ pc = "enumerate"
    /\ IF "locations" \in DOMAIN json_response
       THEN /\ pc' = "for"
            /\ i' = 1
            /\ UNCHANGED exc
       ELSE /\ exc' = KeyError("locations")
            /\ pc' = "except"
            /\ UNCHANGED i
    /\ UNCHANGED <<argv, parsed_options, requests, response, json_response,
                   fieldnames, stdout, stderr, exit_status>>

\* line 76: json_response['locations'] is evaluated once, after the header
Enumerate ==
    /\ pc = "enumerate"
    /\ IF "locations" \in DOMAIN json_response
       THEN /\ pc' = "for"
            /\ i' = 0
            /\ UNCHANGED exc
       ELSE /\ exc' = KeyError("locations")
            /\ pc' = "except"
            /\ UNCHANGED i
    /\ UNCHANGED <<argv, parsed_options, requests, response, json_response,
                   fieldnames, stdout, stderr, exit_status>>

\* lines 76-78: one iteration of the loop
WriteRow ==
    /\ pc = "for"
    /\ i < Len(json_response.locations)
    /\ LET r == create_airport_row(json_response.locations[i + 1]) IN
       IF r.raised
       THEN /\ exc' = r.exc
            /\ pc' = "except"
            /\ UNCHANGED <<i, stdout>>
       ELSE /\ stdout' = Append(stdout, CsvWrite(writerow(fieldnames, r.value)))
            /\ i' = i + 1
            /\ UNCHANGED <<pc, exc>>
    /\ UNCHANGED <<argv, parsed_options, requests, response, json_response,
                   fieldnames, stderr, exit_status>>

\* line 76: the iterator is exhausted, output_airports returns
OutputReturn ==
    /\ pc = "for"
    /\ i = Len(json_response.locations)
    /\ pc' = "end"
    /\ UNCHANGED <<argv, parsed_options, requests, response, json_response,
                   fieldnames, i, exc, stdout, stderr, exit_status>>

\* Variant: the clause catches only the exception get_airports raises itself.
handler_fetch_only(e) ==
    IF e.type = "Exception"
    THEN [caught |-> TRUE, out |-> <<print(e.msg)>>, err |-> <<>>]
    ELSE [caught |-> FALSE, out |-> <<>>,
          err |-> <<[by |-> "traceback", text |-> e.msg]>>]

\* Variant: the message is printed to sys.stderr.
handler_stderr(e) ==
    IF e.type \in ExceptionSubclasses
    THEN [caught |-> TRUE, out |-> <<>>, err |-> <<print(e.msg)>>]
    ELSE [caught |-> FALSE, out |-> <<>>,
          err |-> <<[by |-> "traceback", text |-> e.msg]>>]

\* What the try statement does with exception e: the clause's body runs, or
\* the exception leaves the script.
handler(e) ==
    IF e.type \in ExceptionSubclasses
    THEN [caught |-> TRUE, out |-> <<print(e.msg)>>, err |-> <<>>]
    ELSE [caught |-> FALSE, out |-> <<>>,
          err |-> <<[by |-> "traceback", text |-> e.msg]>>]

\* Variant: the clause calls get_airports again.
Except_retry ==
    /\ pc = "except"
    /\ exc' = NoException
    /\ pc' = "get_airports"
    /\ UNCHANGED <<argv, parsed_options, requests, response, json_response,
                   fieldnames, i, stdout, stderr, exit_status>>

\* lines 143-144
Except ==
    /\ pc = "except"
    /\ LET h == handler(exc) IN
       /\ stdout' = stdout \o h.out
       /\ stderr' = stderr \o h.err
       /\ IF h.caught
          THEN /\ exc' = NoException
               /\ pc' = "end"
               /\ UNCHANGED exit_status
          ELSE /\ pc' = "done"
               /\ exit_status' = "failure"
               /\ UNCHANGED exc
    /\ UNCHANGED <<argv, parsed_options, requests, response, json_response,
                   fieldnames, i>>

\* the end of the script is reached: the interpreter exits with status 0
Exit ==
    /\ pc = "end"
    /\ pc' = "done"
    /\ exit_status' = "success"
    /\ UNCHANGED <<argv, parsed_options, requests, response, json_response,
                   fieldnames, i, exc, stdout, stderr>>

Next ==
    \/ ParseOptions
    \/ GetAirports
    \/ WriteHeader
    \/ Enumerate
    \/ WriteRow
    \/ OutputReturn
    \/ Except
    \/ Exit

Spec == Init /\ [][Next]_vars

---------------------------------------------------------------------------
(* Vocabulary of the properties *)

AllFields == <<"name", "city", "lon", "lat", "iata">>

\* The switch that selects a field.
FlagOf(f) ==
    CASE f = "name" -> "names"
      [] f = "city" -> "cities"
      [] f \in {"lon", "lat"} -> "coords"
      [] f = "iata" -> "iata"

\* The value of field f in a well-formed Airport Record.
RecordValue(airport, f) ==
    CASE f = "name" -> airport.name
      [] f = "city" -> airport.city.name
      [] f = "lon" -> airport.location.lon
      [] f = "lat" -> airport.location.lat
      [] f = "iata" -> airport.code

\* A CSV reader: the cells of one line that ends with \r\n.
RECURSIVE CsvRead(_, _, _, _)
CsvRead(s, cells, cur, inq) ==
    IF s = <<>> THEN Append(cells, cur)
    ELSE LET c == Head(s)
             r == Tail(s)
         IN  IF inq
             THEN IF c = "\""
                  THEN IF r # <<>> /\ Head(r) = "\""
                       THEN CsvRead(Tail(r), cells, Append(cur, "\""), TRUE)
                       ELSE CsvRead(r, cells, cur, FALSE)
                  ELSE CsvRead(r, cells, Append(cur, c), TRUE)
             ELSE IF c = "\"" THEN CsvRead(r, cells, cur, TRUE)
             ELSE IF c = "," THEN CsvRead(r, Append(cells, cur), <<>>, FALSE)
             ELSE IF c = "\r" /\ r = <<"\n">> THEN Append(cells, cur)
             ELSE CsvRead(r, cells, Append(cur, c), FALSE)

Cells(line) == CsvRead(line, <<>>, <<>>, FALSE)

HeaderWritten == pc \in {"enumerate", "for"} \/ (stdout # <<>> /\ stdout[1].by = "csv")
Answered == response # Unassigned
NonOk == Answered /\ ~response.error /\ ~response.ok
HasLocations ==
    /\ Answered
    /\ ~response.error
    /\ response.ok
    /\ response.text.json
    /\ "locations" \in DOMAIN response.text.value
Locations == response.text.value.locations

\* Index of the first record that lacks a nested field, 0 when there is none.
FirstBad(l) ==
    IF \E k \in 1..Len(l) : l[k] \notin WellFormed
    THEN CHOOSE k \in 1..Len(l) :
            /\ l[k] \notin WellFormed
            /\ \A j \in 1..(k - 1) : l[j] \in WellFormed
    ELSE 0

\* A failure inside get_airports other than a non-2xx status.
FetchFault ==
    /\ Answered
    /\ \/ response.error
       \/ response.ok /\ ~response.text.json
\* A failure other than a non-2xx status.
OtherFailure ==
    \/ FetchFault
    \/ Answered /\ ~response.error /\ response.ok /\ response.text.json
       /\ "locations" \notin DOMAIN response.text.value
    \/ HasLocations /\ FirstBad(Locations) # 0

CsvWrites == {k \in 1..Len(stdout) : stdout[k].by = "csv"}
Prints == {k \in 1..Len(stdout) : stdout[k].by = "print"}

---------------------------------------------------------------------------
(* Properties *)

\* C1: with full set, whatever the other four switches, the field list that
\* output_airports computes is exactly name, city, lon, lat, iata.
C1_FullFieldnames ==
    (HeaderWritten /\ parsed_options.full)
        => fieldnames = <<"name", "city", "lon", "lat", "iata">>

C1_Witness ==
    /\ HeaderWritten
    /\ parsed_options.full
    /\ parsed_options.cities
    /\ ~parsed_options.names
    /\ fieldnames = AllFields

\* C2: with full unset and at least one switch set, the field list is the
\* fields whose switch is set, in the fixed order name, city, lon, lat, iata,
\* each once and none whose switch is unset.
C2_OrderedUnion ==
    (HeaderWritten /\ ~parsed_options.full
        /\ \E f \in Flags : parsed_options[f])
        => /\ fieldnames =
                SelectSeq(AllFields, LAMBDA f : parsed_options[FlagOf(f)])
           /\ \A j, k \in 1..Len(fieldnames) :
                fieldnames[j] = fieldnames[k] => j = k
           /\ \A k \in 1..Len(fieldnames) : parsed_options[FlagOf(fieldnames[k])]

C2_Witness ==
    /\ HeaderWritten
    /\ parsed_options = [cities |-> FALSE, coords |-> TRUE, iata |-> TRUE,
                         names |-> FALSE, full |-> FALSE]
    /\ fieldnames = <<"lon", "lat", "iata">>

\* C3: with all five switches unset the field list is the one field name.
C3_DefaultName ==
    (HeaderWritten /\ \A f \in Flags : ~parsed_options[f])
        => fieldnames = <<"name">>

C3_Witness ==
    /\ HeaderWritten
    /\ argv = {}
    /\ fieldnames = <<"name">>

\* C4 as stated: after a non-2xx answer the run ends having printed exactly
\* "Could not fetch data from locations API.".
C4_Original ==
    (NonOk /\ pc = "done")
        => stdout = <<[by |-> "print",
                       text |-> "Could not fetch data from locations API.\n"]>>

\* C4: after a non-2xx answer get_airports raises with the message
\* "Could not fetch data from kiwi locations API.", and that text is what the
\* run prints.
C4_KiwiMessage ==
    /\ (NonOk /\ pc = "except")
        => exc.msg = "Could not fetch data from kiwi locations API."
    /\ (NonOk /\ pc \in {"end", "done"})
        => stdout = <<[by |-> "print",
                       text |-> "Could not fetch data from kiwi locations API.\n"]>>

C4_Witness == NonOk /\ pc = "done" /\ Len(stdout) = 1

\* C5 as stated: a failure other than a non-2xx status leaves the script
\* uncaught: nothing is printed for it and the process ends abnormally.
C5_Original ==
    (OtherFailure /\ pc = "done")
        => exit_status = "failure" /\ Prints = {}

\* C5: a failure other than a non-2xx status (network error, invalid JSON,
\* no locations key, a record without a nested field) is caught by the
\* script: its message is the last thing printed on standard output, nothing
\* is written to standard error and the process exits with success.
C5_OtherFailuresCaught ==
    /\ (OtherFailure /\ pc = "done")
        => /\ exit_status = "success"
           /\ stderr = <<>>
           /\ stdout # <<>>
           /\ Prints = {Len(stdout)}
    /\ (OtherFailure /\ pc # "done") => exit_status = "running"

C5_Witness ==
    /\ pc = "done"
    /\ HasLocations
    /\ FirstBad(Locations) = 2
    /\ exit_status = "success"

\* C6 as stated: at the end of a run over N records standard output holds
\* either no CSV line or the header and all N data lines.
C6_Original ==
    (HasLocations /\ pc = "done")
        => Cardinality(CsvWrites) \in {0, 1 + Len(Locations)}

\* C6: a run whose k-th record lacks a nested field ends with the header, the
\* k-1 data lines of the records before it and then the printed message; a
\* body without a locations key ends with the header and the message; only a
\* failure inside get_airports leaves no CSV line, and only a run without a
\* failure leaves the header and all N data lines.
C6_PartialOutput ==
    pc = "done" =>
        /\ HasLocations =>
              LET k == FirstBad(Locations)
              IN  IF k = 0
                  THEN /\ Len(stdout) = 1 + Len(Locations)
                       /\ CsvWrites = 1..Len(stdout)
                  ELSE /\ Len(stdout) = k + 1
                       /\ CsvWrites = 1..k
                       /\ Prints = {k + 1}
        /\ (OtherFailure /\ ~FetchFault /\ ~HasLocations) =>
              /\ Len(stdout) = 2
              /\ CsvWrites = {1}
              /\ Prints = {2}
        /\ (FetchFault \/ NonOk) => CsvWrites = {}

C6_Witness ==
    /\ pc = "done"
    /\ HasLocations
    /\ Len(Locations) = 2
    /\ FirstBad(Locations) = 2
    /\ CsvWrites = {1, 2}

\* C7: after a non-2xx answer no CSV line is ever written, and the run ends
\* with the message as a single print on standard output, nothing on standard
\* error and exit status success.
C7_FetchErrorHandled ==
    NonOk =>
        /\ CsvWrites = {}
        /\ stderr = <<>>
        /\ exit_status # "failure"
        /\ pc = "done" =>
              /\ Len(stdout) = 1
              /\ stdout[1].by = "print"
              /\ exit_status = "success"

C7_Witness ==
    /\ NonOk
    /\ pc = "done"
    /\ exit_status = "success"
    /\ Prints = {1}

\* C8: every data line holds exactly the values of the fields of the field
\* list, one cell per field in the order of the header, whichever of the
\* five values of the record the field list leaves out; writing a
\* well-formed record raises nothing.
C8_OnlyListedFields ==
    /\ (HasLocations /\ FirstBad(Locations) = 0) =>
          pc # "except" /\ exc = NoException
    /\ \A k \in 2..Len(stdout) :
        stdout[k].by = "csv" =>
            LET cells == Cells(stdout[k].text)
                airport == Locations[k - 1]
            IN  /\ Len(cells) = Len(fieldnames)
                /\ Cells(stdout[1].text) =
                       [j \in 1..Len(fieldnames) |-> FieldText(fieldnames[j])]
                /\ \A j \in 1..Len(cells) :
                       cells[j] = py_str(RecordValue(airport, fieldnames[j]))

C8_Witness ==
    /\ Len(stdout) >= 3
    /\ stdout[3].by = "csv"
    /\ Locations[2] = Quoted
    /\ fieldnames = <<"name", "iata">>

\* C9: over N well-formed records the header is the first write and the only
\* one before the data lines, the i-th data line is the one of the i-th
\* record, and the run ends with 1 + N lines.
C9_HeaderThenRows ==
    (HasLocations /\ FirstBad(Locations) = 0) =>
        /\ CsvWrites = 1..Len(stdout)
        /\ Len(stdout) <= 1 + Len(Locations)
        /\ pc = "for" => Len(stdout) = 1 + i
        /\ pc \in {"end", "done"} => Len(stdout) = 1 + Len(Locations)
        /\ \A k \in 1..Len(stdout) :
              Cells(stdout[k].text) =
                 IF k = 1
                 THEN [j \in 1..Len(fieldnames) |-> FieldText(fieldnames[j])]
                 ELSE [j \in 1..Len(fieldnames) |->
                         py_str(RecordValue(Locations[k - 1], fieldnames[j]))]

C9_Witness ==
    /\ pc = "done"
    /\ HasLocations
    /\ Locations = <<Heathrow, Quoted>>
    /\ Len(stdout) = 3

\* C10: a run issues one request, for GB with limit 100: none before
\* get_airports runs, exactly that one ever after, whatever the answer.
C10_OneRequest ==
    /\ Len(requests) <= 1
    /\ pc \in {"parse_options", "get_airports"} => requests = <<>>
    /\ pc \notin {"parse_options", "get_airports"} =>
          /\ Len(requests) = 1
          /\ requests[1].params.term = "GB"
          /\ requests[1].params.limit = 100
          /\ requests[1].params.type = "subentity"
          /\ requests[1].params.location_types = "airport"

C10_Witness ==
    /\ pc = "done"
    /\ Answered
    /\ response.error
    /\ Len(requests) = 1

====
